---------------------------- MODULE Spec2Model ----------------------------
(***************************************************************************)
(* A model of auto-2048.py: the 4x4 board, the four slide-and-merge moves, *)
(* the positional heuristic, the recursive lookahead search, the move      *)
(* selection of make_best_move_with_lookahead and the play loop of main.   *)
(*                                                                         *)
(* A board is a sequence of 4 rows, each a sequence of 4 naturals; Python  *)
(* index i is index i + 1 here.  A function of the program that mutates    *)
(* its list argument in place is an operator that returns the argument's   *)
(* contents after the call together with the value returned.  The search   *)
(* copies boards, so it is modelled over a store of list objects: whether  *)
(* the caller's board survives a search is decided by which object each    *)
(* move is applied to.                                                     *)
(***************************************************************************)
EXTENDS Integers, Sequences, FiniteSets, TLC

VARIABLES
    board,    \* the list object `board` of the caller (main, or the harness)
    pc,       \* control location of the caller
    op,       \* the operation that produced this state
    before,   \* contents of `board` when that operation was called
    ret,      \* the boolean it returned (moves, make_best_move_with_lookahead)
    depth,    \* the depth / lookahead argument of the last search
    res,      \* what the last search returned (see evaluate_future_states)
    chosen,   \* the direction make_best_move_with_lookahead applied
    rowIn,    \* the argument of the last move_row_left call
    rowOut,   \* its result
    pts,      \* what the last create_points call read and stored, cell by cell
    turns     \* iterations of main's loop made so far

vars == <<board, pc, op, before, ret, depth, res, chosen, rowIn, rowOut, pts, turns>>

---------------------------------------------------------------------------
(* Program constants and the bounds of the model.                          *)

N == 4                 \* side of the board
WinTile == 2048        \* the tile check_2048 looks for
Norm == 2048           \* normalize divides by it
Tenth == 10            \* get_points divides the zero/two ratio by it

MaxExp == 3            \* sample rows hold tiles up to 2^MaxExp
MaxDepth == 2          \* searches are run with depth 0..MaxDepth
MaxPlayTiles == 3      \* free play inserts a tile while fewer tiles are held
MaxTurns == 2          \* iterations of main's loop that are explored
Lookahead == 1         \* the lookahead main is explored with (the program passes 12)

Idx == 1..N

RECURSIVE Pow2(_)
Pow2(k) == IF k = 0 THEN 1 ELSE 2 * Pow2(k - 1)

EmptyRow == [c \in Idx |-> 0]
EmptyBoard == [r \in Idx |-> EmptyRow]

Cells == Idx \X Idx

RECURSIVE SumSeq(_)
SumSeq(s) == IF s = <<>> THEN 0 ELSE Head(s) + SumSeq(Tail(s))

TileCount(B) == Cardinality({p \in Cells : B[p[1]][p[2]] # 0})
BoardSum(B) == SumSeq([r \in Idx |-> SumSeq(B[r])])
IsFull(B) == \A p \in Cells : B[p[1]][p[2]] # 0

---------------------------------------------------------------------------
(* Board and move engine.                                                  *)

\* row[::-1] and board[::-1]
Reversed(s) == [i \in 1..Len(s) |-> s[Len(s) + 1 - i]]

\* zip(*rows): the j-th tuple collects the j-th element of every row
Zip(rows) == [j \in Idx |-> [i \in 1..Len(rows) |-> rows[i][j]]]

NonZero(x) == x # 0

\* a plausible slip: the merged tile is put back at the front of new_row,
\* so it can merge again in the same pass
MergeLoopAgain(new_row, merged) ==
    LET RECURSIVE Go(_, _)
        Go(nr, mg) ==
            IF nr = <<>> THEN mg
            ELSE IF Len(nr) > 1 /\ nr[1] = nr[2]
                 THEN Go(<<nr[1] * 2>> \o SubSeq(nr, 3, Len(nr)), mg)
                 ELSE Go(SubSeq(nr, 2, Len(nr)), Append(mg, nr[1]))
    IN Go(new_row, merged)

\* a plausible slip: the equality test forgotten, any two neighbours merge
MergeLoopAnyPair(new_row, merged) ==
    LET RECURSIVE Go(_, _)
        Go(nr, mg) ==
            IF nr = <<>> THEN mg
            ELSE IF Len(nr) > 1
                 THEN Go(SubSeq(nr, 3, Len(nr)), Append(mg, nr[1] + nr[2]))
                 ELSE Go(SubSeq(nr, 2, Len(nr)), Append(mg, nr[1]))
    IN Go(new_row, merged)

\* a plausible slip: merged.append(new_row[0]), the doubling forgotten
MergeLoopNoDouble(new_row, merged) ==
    LET RECURSIVE Go(_, _)
        Go(nr, mg) ==
            IF nr = <<>> THEN mg
            ELSE IF Len(nr) > 1 /\ nr[1] = nr[2]
                 THEN Go(SubSeq(nr, 3, Len(nr)), Append(mg, nr[1]))
                 ELSE Go(SubSeq(nr, 2, Len(nr)), Append(mg, nr[1]))
    IN Go(new_row, merged)

\* the while loop of move_row_left: new_row is consumed from the front
RECURSIVE MergeLoop(_, _)
MergeLoop(new_row, merged) ==
    IF new_row = <<>> THEN merged
    ELSE IF Len(new_row) > 1 /\ new_row[1] = new_row[2]
         THEN MergeLoop(SubSeq(new_row, 3, Len(new_row)), Append(merged, new_row[1] * 2))
         ELSE MergeLoop(SubSeq(new_row, 2, Len(new_row)), Append(merged, new_row[1]))

move_row_left(row) ==
    LET new_row == SelectSeq(row, NonZero)
        merged == MergeLoop(new_row, <<>>)
    IN merged \o [i \in 1..(N - Len(merged)) |-> 0]

\* a plausible slip: zip(*board) without the [::-1], a transposition
rotate_transposed(B) == Zip(B)

rotate_board_clockwise(B) == Zip(Reversed(B))

rotate_board_counterclockwise(B) == Reversed(Zip(B))

\* a plausible slip: moved = (new_row != board[r]), the flag of the last row
left_last_row(B) ==
    LET new == [r \in Idx |-> move_row_left(B[r])]
    IN [board |-> new, moved |-> new[N] # B[N]]

\* a plausible slip: the comparison inverted, if new_row == board[r]
left_inverted(B) ==
    LET new == [r \in Idx |-> move_row_left(B[r])]
    IN [board |-> new, moved |-> \E r \in Idx : new[r] = B[r]]

\* left(board): every row is replaced; moved is set once any row differs
left(B) ==
    LET new == [r \in Idx |-> move_row_left(B[r])]
    IN [board |-> new, moved |-> \E r \in Idx : new[r] # B[r]]

right(B) ==
    LET rev == [r \in Idx |-> Reversed(B[r])]
        l == left(rev)
    IN [board |-> [r \in Idx |-> Reversed(l.board[r])], moved |-> l.moved]

up(B) ==
    LET l == left(rotate_board_counterclockwise(B))
    IN [board |-> rotate_board_clockwise(l.board), moved |-> l.moved]

down(B) ==
    LET l == left(rotate_board_clockwise(B))
    IN [board |-> rotate_board_counterclockwise(l.board), moved |-> l.moved]

---------------------------------------------------------------------------
(* Heuristic.  Python computes scores in floating point; here they are the *)
(* exact rationals the floating-point values round.                        *)

\* x / 2048 if x else 0, as the fraction n / d
normalize(x) == IF x # 0 THEN [n |-> x, d |-> Norm] ELSE [n |-> 0, d |-> 1]

\* the four neighbour values create_points reads for Python cell (r-1, c-1).
\* board[r - 1] with Python r = 0 is board[-1], the last row.
NeighbourLeft(B, r, c) == IF c - 1 > 0 THEN B[r][c - 1] ELSE 0
NeighbourRight(B, r, c) == IF c - 1 < 3 THEN B[r][c + 1] ELSE 0
NeighbourUp(B, r, c) == IF r - 1 < 3 THEN B[r + 1][c] ELSE 0
NeighbourDown(B, r, c) == IF r - 1 < 3 THEN B[IF r - 1 = 0 THEN N ELSE r - 1][c] ELSE 0

\* the multiple of the tile value that the four ifs leave in board_p[r][c]:
\* each if that holds overwrites what the ones before it stored
Weight(v, l, rt, u, dn) ==
    IF l < v /\ rt > v /\ u = v /\ dn = v THEN 6
    ELSE IF l < v /\ rt > v /\ u <= v /\ dn >= v THEN 3
    ELSE IF l < v /\ rt > v THEN 2
    ELSE IF l < v \/ rt > v \/ u <= v \/ dn >= v THEN 1
    ELSE 0

create_points(B) ==
    [r \in Idx |-> [c \in Idx |->
        IF B[r][c] # 0
        THEN normalize(Weight(B[r][c], NeighbourLeft(B, r, c), NeighbourRight(B, r, c),
                              NeighbourUp(B, r, c), NeighbourDown(B, r, c)) * B[r][c])
        ELSE [n |-> 0, d |-> 1]]]

RECURSIVE Gcd(_, _)
Gcd(a, b) == IF b = 0 THEN a ELSE Gcd(b, a % b)

Lcm(a, b) == (a \div Gcd(a, b)) * b

FracAdd(x, y) ==
    LET l == Lcm(x.d, y.d)
    IN [n |-> x.n * (l \div x.d) + y.n * (l \div y.d), d |-> l]

FracMul(x, y) == [n |-> x.n * y.n, d |-> x.d * y.d]

RECURSIVE FracSum(_)
FracSum(s) == IF s = <<>> THEN [n |-> 0, d |-> 1] ELSE FracAdd(Head(s), FracSum(Tail(s)))

\* points += sum(row) * ((zeros + 0.01) / (twos + 0.01) / 10), over the rows
get_points(B) ==
    LET length_of_zeros == Cardinality({p \in Cells : B[p[1]][p[2]] = 0})
        length_of_twos == Cardinality({p \in Cells : B[p[1]][p[2]] = 2})
        factor == [n |-> 100 * length_of_zeros + 1, d |-> (100 * length_of_twos + 1) * Tenth]
        board_p == create_points(B)
    IN FracSum([r \in Idx |-> FracMul(FracSum(board_p[r]), factor)])

(* Cumulative scores add heuristic values of different boards.  A score s  *)
(* is held as the mixed number i + n/d (0 <= n < d) equal to               *)
(* Norm * Tenth * s, which keeps every intermediate number small; sums and *)
(* comparisons are unaffected by the common factor.                        *)
ScoreZero == [i |-> 0, n |-> 0, d |-> 1]

\* i + n/d with the fraction in lowest terms
Mixed(i, n, d) == LET g == Gcd(n, d) IN [i |-> i, n |-> n \div g, d |-> d \div g]

ToScore(f) ==
    LET g == Gcd(f.d, Norm * Tenth)
        dd == f.d \div g
        nn == f.n * ((Norm * Tenth) \div g)
    IN Mixed(nn \div dd, nn % dd, dd)

ScoreAdd(x, y) ==
    LET l == Lcm(x.d, y.d)
        nn == x.n * (l \div x.d) + y.n * (l \div y.d)
    IN Mixed(x.i + y.i + (nn \div l), nn % l, l)

\* a/b compared with c/d by their continued fractions: -1, 0 or 1
RECURSIVE FracCmp(_, _, _, _)
FracCmp(a, b, c, d) ==
    LET q1 == a \div b
        q2 == c \div d
        r1 == a % b
        r2 == c % d
    IN IF q1 # q2 THEN (IF q1 < q2 THEN -1 ELSE 1)
       ELSE IF r1 = 0 /\ r2 = 0 THEN 0
       ELSE IF r1 = 0 THEN -1
       ELSE IF r2 = 0 THEN 1
       ELSE 0 - FracCmp(b, r1, d, r2)

ScoreCmp(x, y) ==
    IF x.i # y.i THEN (IF x.i < y.i THEN -1 ELSE 1) ELSE FracCmp(x.n, x.d, y.n, y.d)

ScoreLeq(x, y) == ScoreCmp(x, y) <= 0

---------------------------------------------------------------------------
(* Lookahead search, over a store of board objects.  A store is a sequence *)
(* of boards; a board object is its index.                                 *)

MoveOrder == <<"w", "a", "s", "d">>   \* insertion order of possible_moves

\* the function each key of possible_moves is paired with
ApplyMove(m, B) ==
    CASE m = "w" -> up(B)
      [] m = "a" -> left(B)
      [] m = "s" -> down(B)
      [] m = "d" -> right(B)

\* a plausible slip: the dictionary holds the caller's board, not a copy
CopyBoardAlias(st, b) == [st |-> Append(st, st[b]), id |-> b]

\* [row[:] for row in board]: a new object with the same contents
CopyBoard(st, b) == [st |-> Append(st, st[b]), id |-> Len(st) + 1]

Range(f) == {f[x] : x \in DOMAIN f}

\* max(d.values()), d not empty
MaxScore(map) == CHOOSE s \in Range(map) : \A t \in Range(map) : ScoreLeq(t, s)

Raise(st) == [st |-> st, raised |-> TRUE, kind |-> "map", score |-> ScoreZero, map |-> <<>>]

\* TLC evaluates a LET definition anew at every use; a value bound by
\* x \in {e} is computed once.  The(S) is the element of a singleton S.
The(S) == CHOOSE x \in S : TRUE

RECURSIVE evaluate_future_states(_, _, _)
RECURSIVE EvalMoves(_, _, _, _, _)
RECURSIVE lookahead_term(_, _, _)

\* a plausible slip: the recursion is entered at depth 1 too, where it
\* returns a float, which has no values()
lookahead_term_from_one(st, id, d) ==
    IF d > 0
    THEN The({IF r.raised \/ r.kind = "score" \/ DOMAIN r.map = {}
              THEN [st |-> r.st, raised |-> TRUE, val |-> ScoreZero]
              ELSE [st |-> r.st, raised |-> FALSE, val |-> MaxScore(r.map)] :
              r \in {evaluate_future_states(st, id, d - 1)}})
    ELSE [st |-> st, raised |-> FALSE, val |-> ScoreZero]

\* max(evaluate_future_states(board_copy, depth - 1).values()) if depth > 1 else 0
\* values() of a float and max() of an empty collection both raise
lookahead_term(st, id, d) ==
    IF d > 1
    THEN The({IF r.raised \/ r.kind = "score" \/ DOMAIN r.map = {}
              THEN [st |-> r.st, raised |-> TRUE, val |-> ScoreZero]
              ELSE [st |-> r.st, raised |-> FALSE, val |-> MaxScore(r.map)] :
              r \in {evaluate_future_states(st, id, d - 1)}})
    ELSE [st |-> st, raised |-> FALSE, val |-> ScoreZero]

\* the body of the for loop for a move that changed its board copy (held
\* in st), then the rest of the loop
ScoreMove(st, ids, k, d, move_scores) ==
    The({IF la.raised THEN Raise(la.st)
         ELSE EvalMoves(la.st, ids, k + 1, d,
                        (MoveOrder[k] :> ScoreAdd(points, la.val)) @@ move_scores) :
         points \in {ToScore(get_points(st[ids[k]]))},
         la \in {lookahead_term(st, ids[k], d)}})

\* a plausible slip: a move that changes nothing is given a sentinel score
\* instead of being left out
EvalMovesSentinel(st, ids, k, d, move_scores) ==
    IF k > Len(MoveOrder)
    THEN [st |-> st, raised |-> FALSE, kind |-> "map", score |-> ScoreZero, map |-> move_scores]
    ELSE The({IF ~mv.moved
              THEN EvalMoves([st EXCEPT ![ids[k]] = mv.board], ids, k + 1, d,
                             (MoveOrder[k] :> ScoreZero) @@ move_scores)
              ELSE ScoreMove([st EXCEPT ![ids[k]] = mv.board], ids, k, d, move_scores) :
              mv \in {ApplyMove(MoveOrder[k], st[ids[k]])}})

\* the for loop over possible_moves.items(), from its k-th item on
EvalMoves(st, ids, k, d, move_scores) ==
    IF k > Len(MoveOrder)
    THEN [st |-> st, raised |-> FALSE, kind |-> "map", score |-> ScoreZero, map |-> move_scores]
    ELSE The({IF ~mv.moved
              THEN EvalMoves([st EXCEPT ![ids[k]] = mv.board], ids, k + 1, d, move_scores)
              ELSE ScoreMove([st EXCEPT ![ids[k]] = mv.board], ids, k, d, move_scores) :
              mv \in {ApplyMove(MoveOrder[k], st[ids[k]])}})

\* possible_moves: four copies of the board, made before any move
PossibleMoves(st, b) ==
    The({The({The({The({[st |-> c4.st, ids |-> <<c1.id, c2.id, c3.id, c4.id>>] :
        c4 \in {CopyBoard(c3.st, b)}}) :
        c3 \in {CopyBoard(c2.st, b)}}) :
        c2 \in {CopyBoard(c1.st, b)}}) :
        c1 \in {CopyBoard(st, b)}})

evaluate_future_states(st, b, d) ==
    IF d = 0
    THEN [st |-> st, raised |-> FALSE, kind |-> "score",
          score |-> ToScore(get_points(st[b])), map |-> <<>>]
    ELSE The({EvalMoves(pm.st, pm.ids, 1, d, <<>>) : pm \in {PossibleMoves(st, b)}})

evaluate_moves_with_lookahead(st, b, lookahead) == evaluate_future_states(st, b, lookahead)

---------------------------------------------------------------------------
(* Move selection.                                                         *)

\* the keys of a move-score dictionary, in insertion order
RECURSIVE KeysFrom(_, _)
KeysFrom(map, k) ==
    IF k > Len(MoveOrder) THEN <<>>
    ELSE IF MoveOrder[k] \in DOMAIN map
         THEN <<MoveOrder[k]>> \o KeysFrom(map, k + 1)
         ELSE KeysFrom(map, k + 1)

\* drop the first occurrence of m
RECURSIVE Without(_, _)
Without(keys, m) ==
    IF keys = <<>> THEN <<>>
    ELSE IF Head(keys) = m THEN Tail(keys)
    ELSE <<Head(keys)>> \o Without(Tail(keys), m)

\* a plausible slip: reverse=True forgotten, the lowest score comes first
FirstWorst(map, keys) ==
    LET i == CHOOSE i \in 1..Len(keys) :
                 /\ \A j \in 1..Len(keys) : ScoreLeq(map[keys[i]], map[keys[j]])
                 /\ \A j \in 1..(i - 1) : ~ScoreLeq(map[keys[j]], map[keys[i]])
    IN keys[i]

\* the first key no other key beats: stable order among equal scores
FirstBest(map, keys) ==
    LET i == CHOOSE i \in 1..Len(keys) :
                 /\ \A j \in 1..Len(keys) : ScoreLeq(map[keys[j]], map[keys[i]])
                 /\ \A j \in 1..(i - 1) : ~ScoreLeq(map[keys[i]], map[keys[j]])
    IN keys[i]

\* sorted(move_scores.items(), key=lambda x: x[1], reverse=True), the keys
RECURSIVE SortedFrom(_, _)
SortedFrom(map, keys) ==
    IF keys = <<>> THEN <<>>
    ELSE LET m == FirstBest(map, keys)
         IN <<m>> \o SortedFrom(map, Without(keys, m))

sorted_moves(map) == SortedFrom(map, KeysFrom(map, 1))

\* the for loop over sorted_moves, from its k-th item on
RECURSIVE TryMoves(_, _, _, _)
TryMoves(st, b, moves, k) ==
    IF k > Len(moves)
    THEN [st |-> st, ret |-> FALSE, chosen |-> "none", tried |-> k - 1]
    ELSE LET mv == ApplyMove(moves[k], st[b])
             st1 == [st EXCEPT ![b] = mv.board]
         IN IF mv.moved
            THEN [st |-> st1, ret |-> TRUE, chosen |-> moves[k], tried |-> k]
            ELSE TryMoves(st1, b, moves, k + 1)

\* raised: an exception left the call.  search: what the search returned.
\* tried: how many candidates the loop applied.
make_best_move_with_lookahead(st, b, lookahead) ==
    LET r == evaluate_moves_with_lookahead(st, b, lookahead)
        none == [st |-> r.st, raised |-> FALSE, ret |-> FALSE, chosen |-> "none",
                 tried |-> 0, search |-> r]
    IN IF r.raised THEN [none EXCEPT !.raised = TRUE]
       ELSE IF r.kind = "score"
            THEN (IF r.score = ScoreZero THEN none ELSE [none EXCEPT !.raised = TRUE])
       ELSE IF DOMAIN r.map = {} THEN none
       ELSE LET t == TryMoves(r.st, b, sorted_moves(r.map), 1)
            IN [st |-> t.st, raised |-> FALSE, ret |-> t.ret, chosen |-> t.chosen,
                tried |-> t.tried, search |-> r]

---------------------------------------------------------------------------
(* Tile placement and the terminal conditions.                             *)

\* a plausible slip: the cell is chosen among all cells, not the empty ones
add_random_tile_any_cell(B) ==
    {[B EXCEPT ![p[1]][p[2]] = v] : p \in Cells, v \in {2, 4}}

\* the boards add_random_tile can leave: any empty cell, 2 or 4
add_random_tile(B) ==
    LET empty == {p \in Cells : B[p[1]][p[2]] = 0}
    IN IF empty # {}
       THEN {[B EXCEPT ![p[1]][p[2]] = v] : p \in empty, v \in {2, 4}}
       ELSE {B}

init_board == UNION {add_random_tile(b) : b \in add_random_tile(EmptyBoard)}

\* a plausible slip: the test against the cell below forgotten
is_game_over_rows_only(B) ==
    ~\E r \in Idx, c \in Idx :
        \/ B[r][c] = 0
        \/ c - 1 < 3 /\ B[r][c] = B[r][c + 1]

is_game_over(B) ==
    ~\E r \in Idx, c \in Idx :
        \/ B[r][c] = 0
        \/ r - 1 < 3 /\ B[r][c] = B[r + 1][c]
        \/ c - 1 < 3 /\ B[r][c] = B[r][c + 1]

check_2048(B) == \E r \in Idx : \E c \in Idx : B[r][c] = WinTile

---------------------------------------------------------------------------
(* Sample inputs.                                                          *)

TileValues == {0} \cup {Pow2(k) : k \in 1..MaxExp}

\* the boards of an opening: empty, one tile, two tiles, each a 2 or a 4
SparseBoards == {EmptyBoard} \cup add_random_tile(EmptyBoard) \cup init_board

\* one arbitrary row, at the top or at the bottom of an otherwise empty board
RowBoards == {[EmptyBoard EXCEPT ![r] = row] : row \in [Idx -> TileValues], r \in {1, N}}

\* full boards: with no move at all, with merges in one axis only, with both
FullRows == {<<2, 4, 2, 4>>, <<4, 2, 4, 2>>, <<4, 8, 4, 8>>, <<2, 2, 4, 4>>}
FullBoards == [Idx -> FullRows]

\* boards of a late game, one move away from the winning tile
LateBoards ==
    {<<<<1024, 1024, 0, 0>>, <<2, 0, 0, 0>>, EmptyRow, EmptyRow>>,
     <<<<1024, 4, 0, 0>>, <<1024, 2, 0, 0>>, EmptyRow, EmptyRow>>,
     <<<<512, 1024, 4, 2>>, <<512, 8, 2, 0>>, EmptyRow, EmptyRow>>}

SampleBoards == SparseBoards \cup RowBoards \cup FullBoards

---------------------------------------------------------------------------
(* The caller.  A call is one step: ready -> done.                         *)

NoResult == [raised |-> FALSE, kind |-> "none", score |-> ScoreZero, map |-> <<>>,
             tried |-> 0, peak |-> 0]

\* the most tiles any board object of the store holds
Peak(st) == LET counts == {TileCount(st[i]) : i \in 1..Len(st)}
            IN CHOOSE m \in counts : \A x \in counts : x <= m

Start(boards, at) ==
    /\ board \in boards
    /\ before = board
    /\ pc = at
    /\ op = "none"
    /\ ret = FALSE
    /\ depth = 0
    /\ res = NoResult
    /\ chosen = "none"
    /\ rowIn = EmptyRow
    /\ rowOut = EmptyRow
    /\ pts = <<>>
    /\ turns = 0

Init == Start(SampleBoards, "ready")

MoveRowLeft ==
    /\ pc = "ready"
    /\ \E r \in Idx :
          /\ rowIn' = board[r]
          /\ rowOut' = move_row_left(board[r])
    /\ op' = "move_row_left"
    /\ pc' = "done"
    /\ before' = board
    /\ UNCHANGED <<board, ret, depth, res, chosen, pts, turns>>

Move(m, name) ==
    /\ pc = "ready"
    /\ \E mv \in {ApplyMove(m, board)} :
          /\ board' = mv.board
          /\ ret' = mv.moved
    /\ before' = board
    /\ op' = name
    /\ pc' = "done"
    /\ UNCHANGED <<depth, res, chosen, rowIn, rowOut, pts, turns>>

Left == Move("a", "left")
Right == Move("d", "right")
Up == Move("w", "up")
Down == Move("s", "down")

Evaluate ==
    /\ pc = "ready"
    /\ \E d \in 0..MaxDepth :
          \E r \in {evaluate_future_states(<<board>>, 1, d)} :
             /\ board' = r.st[1]
             /\ depth' = d
             /\ res' = [raised |-> r.raised, kind |-> r.kind, score |-> r.score,
                        map |-> r.map, tried |-> 0, peak |-> Peak(r.st)]
    /\ before' = board
    /\ op' = "evaluate"
    /\ pc' = "done"
    /\ UNCHANGED <<ret, chosen, rowIn, rowOut, pts, turns>>

MakeBestMove ==
    /\ pc = "ready"
    /\ \E d \in 1..MaxDepth :
          \E r \in {make_best_move_with_lookahead(<<board>>, 1, d)} :
             /\ board' = r.st[1]
             /\ depth' = d
             /\ ret' = r.ret
             /\ chosen' = r.chosen
             /\ res' = [raised |-> r.raised, kind |-> r.search.kind, score |-> r.search.score,
                        map |-> r.search.map, tried |-> r.tried, peak |-> Peak(r.st)]
    /\ before' = board
    /\ op' = "make_best"
    /\ pc' = "done"
    /\ UNCHANGED <<rowIn, rowOut, pts, turns>>

\* add_random_tile(board), on any board, full ones included
PlaceTile ==
    /\ pc = "ready"
    /\ \E B \in add_random_tile(board) : board' = B
    /\ before' = board
    /\ op' = "add_random_tile"
    /\ pc' = "done"
    /\ UNCHANGED <<ret, depth, res, chosen, rowIn, rowOut, pts, turns>>

\* ret = is_game_over(board)
IsGameOver ==
    /\ pc = "ready"
    /\ ret' = is_game_over(board)
    /\ before' = board
    /\ op' = "is_game_over"
    /\ pc' = "done"
    /\ UNCHANGED <<board, depth, res, chosen, rowIn, rowOut, pts, turns>>

\* board = rotate_board_clockwise(board)
RotateClockwise ==
    /\ pc = "ready"
    /\ board' = rotate_board_clockwise(board)
    /\ before' = board
    /\ op' = "rotate_cw"
    /\ pc' = "done"
    /\ UNCHANGED <<ret, depth, res, chosen, rowIn, rowOut, pts, turns>>

\* board = rotate_board_counterclockwise(board)
RotateCounterclockwise ==
    /\ pc = "ready"
    /\ board' = rotate_board_counterclockwise(board)
    /\ before' = board
    /\ op' = "rotate_ccw"
    /\ pc' = "done"
    /\ UNCHANGED <<ret, depth, res, chosen, rowIn, rowOut, pts, turns>>

\* create_points(board): for every non-empty cell, the four neighbour values
\* the call read and the contribution it stored in board_p
CreatePoints ==
    /\ pc = "ready"
    /\ \E board_p \in {create_points(board)} :
          pts' = [p \in {q \in Cells : board[q[1]][q[2]] # 0} |->
                    [left |-> NeighbourLeft(board, p[1], p[2]),
                     right |-> NeighbourRight(board, p[1], p[2]),
                     up |-> NeighbourUp(board, p[1], p[2]),
                     down |-> NeighbourDown(board, p[1], p[2]),
                     board_p |-> board_p[p[1]][p[2]]]]
    /\ before' = board
    /\ op' = "create_points"
    /\ pc' = "done"
    /\ UNCHANGED <<board, ret, depth, res, chosen, rowIn, rowOut, turns>>

Next ==
    \/ MoveRowLeft \/ Left \/ Right \/ Up \/ Down \/ Evaluate \/ MakeBestMove
    \/ PlaceTile \/ IsGameOver \/ RotateClockwise \/ RotateCounterclockwise \/ CreatePoints

Spec == Init /\ [][Next]_vars

---------------------------------------------------------------------------
(* Free play: any sequence of moves and tile insertions from init_board.   *)

AddRandomTile ==
    /\ pc = "ready"
    /\ TileCount(board) < MaxPlayTiles
    /\ \E B \in add_random_tile(board) : board' = B
    /\ before' = board
    /\ op' = "add_random_tile"
    /\ pc' = "done"
    /\ UNCHANGED <<ret, depth, res, chosen, rowIn, rowOut, pts, turns>>

\* the caller goes on to its next call, on the board as it now is
Resume ==
    /\ pc = "done"
    /\ pc' = "ready"
    /\ before' = board
    /\ op' = "none"
    /\ ret' = FALSE
    /\ UNCHANGED <<board, depth, res, chosen, rowIn, rowOut, pts, turns>>

InitPlay == Start(init_board, "ready")

NextPlay == Left \/ Right \/ Up \/ Down \/ AddRandomTile \/ Resume

SpecPlay == InitPlay /\ [][NextPlay]_vars

---------------------------------------------------------------------------
(* main: the play loop, one action per statement of its body.              *)

\* the openings explored: both tiles in the top-left quarter of the board
Quarter == {<<1, 1>>, <<1, 2>>, <<2, 1>>, <<2, 2>>}
Openings == {b \in init_board : \A p \in Cells : b[p[1]][p[2]] # 0 => p \in Quarter}

\* a board with no move left, as the last insertion of a lost game leaves it
StuckBoards == {<<<<2, 4, 2, 4>>, <<4, 8, 4, 8>>, <<2, 4, 2, 4>>, <<4, 2, 4, 2>>>>}

InitMain == Start(Openings \cup LateBoards \cup StuckBoards, "loop")

\* line 238: make_best_move_with_lookahead(board, 12)
Turn ==
    /\ pc = "loop"
    /\ turns < MaxTurns
    /\ \E r \in {make_best_move_with_lookahead(<<board>>, 1, Lookahead)} :
          /\ board' = r.st[1]
          /\ ret' = r.ret
          /\ chosen' = r.chosen
          /\ res' = [raised |-> r.raised, kind |-> r.search.kind, score |-> r.search.score,
                     map |-> r.search.map, tried |-> r.tried, peak |-> Peak(r.st)]
          /\ pc' = IF r.raised THEN "raised" ELSE IF r.ret THEN "moved" ELSE "stuck"
    /\ depth' = Lookahead
    /\ before' = board
    /\ op' = "make_best"
    /\ turns' = turns + 1
    /\ UNCHANGED <<rowIn, rowOut, pts>>

\* lines 239-241: no move was made; the loop ends if the game is over
Stuck ==
    /\ pc = "stuck"
    /\ pc' = IF is_game_over(board) THEN "over" ELSE "loop"
    /\ op' = "is_game_over"
    /\ before' = board
    /\ UNCHANGED <<board, ret, depth, res, chosen, rowIn, rowOut, pts, turns>>

\* lines 243-246: a move was made and the board holds the winning tile
Win ==
    /\ pc = "moved"
    /\ check_2048(board)
    /\ pc' = "won"
    /\ op' = "check_2048"
    /\ before' = board
    /\ UNCHANGED <<board, ret, depth, res, chosen, rowIn, rowOut, pts, turns>>

\* a plausible slip: add_random_tile called whatever the turn returned
AddTileAfterAnyTurn ==
    /\ pc \in {"moved", "stuck"}
    /\ pc = "moved" => ~check_2048(board)
    /\ \E B \in add_random_tile(board) : board' = B
    /\ pc' = "loop"
    /\ op' = "add_random_tile"
    /\ before' = board
    /\ UNCHANGED <<ret, depth, res, chosen, rowIn, rowOut, pts, turns>>

\* a plausible slip: the check for the winning tile left out of the loop
AddTileNoWinCheck ==
    /\ pc = "moved"
    /\ \E B \in add_random_tile(board) : board' = B
    /\ pc' = "loop"
    /\ op' = "add_random_tile"
    /\ before' = board
    /\ UNCHANGED <<ret, depth, res, chosen, rowIn, rowOut, pts, turns>>

\* lines 243, 247: a move was made, no winning tile: add_random_tile(board)
AddTile ==
    /\ pc = "moved"
    /\ ~check_2048(board)
    /\ \E B \in add_random_tile(board) : board' = B
    /\ pc' = "loop"
    /\ op' = "add_random_tile"
    /\ before' = board
    /\ UNCHANGED <<ret, depth, res, chosen, rowIn, rowOut, pts, turns>>

NextMain == Turn \/ Stuck \/ Win \/ AddTile

SpecMain == InitMain /\ [][NextMain]_vars

---------------------------------------------------------------------------
(* Properties.                                                             *)

Directions == {"w", "a", "s", "d"}
MoveOps == {"left", "right", "up", "down"}

\* the directions whose move changes at least one cell of B
Legal(B) == {m \in Directions : ApplyMove(m, B).board # B}

RECURSIVE IsPowerOfTwo(_)
IsPowerOfTwo(x) == x = 2 \/ (x > 2 /\ x % 2 = 0 /\ IsPowerOfTwo(x \div 2))

\* the merge-once rule, stated on positions.  C is the row compacted; P is
\* the set of positions that start a merged pair: a tile merges with its
\* right neighbour when they are equal and it was not itself consumed.
MergedPairs(C) ==
    CHOOSE P \in SUBSET (1..(Len(C) - 1)) :
        \A i \in 1..(Len(C) - 1) : i \in P <=> (C[i] = C[i + 1] /\ (i - 1) \notin P)

MergeOnce(row) ==
    LET C == SelectSeq(row, NonZero)
        P == MergedPairs(C)
        kept == {i \in 1..Len(C) : (i - 1) \notin P}
        nth(j) == CHOOSE i \in kept : Cardinality({x \in kept : x <= i}) = j
    IN [j \in Idx |-> IF j <= Cardinality(kept)
                      THEN (IF nth(j) \in P THEN 2 * C[nth(j)] ELSE C[nth(j)])
                      ELSE 0]

\* C1: move_row_left returns the row compacted to the left with every
\* adjacent equal pair, scanned left to right, merged exactly once and zeros
\* appended up to length 4; [2,2,2,2] gives [4,4,0,0], not [8,0,0,0].
C1_MergeOnce ==
    op = "move_row_left" =>
        /\ rowOut = MergeOnce(rowIn)
        /\ Len(rowOut) = N
        /\ rowIn = <<2, 2, 2, 2>> => rowOut = <<4, 4, 0, 0>>

C1_Witness == op = "move_row_left" /\ rowIn = <<2, 2, 2, 2>> /\ rowOut = <<4, 4, 0, 0>>

\* C2: left, right, up and down return True exactly when the board after
\* the call differs from the board before it; a False return leaves every
\* cell as it was.
C2_MovedIffChanged == op \in MoveOps => (ret <=> board # before)

C2_Witness == op = "up" /\ ret /\ TileCount(board) < TileCount(before)

\* C3: in every state reached from init_board by moves and tile insertions
\* the board is 4x4 and every cell is 0 or a power of two that is at least 2.
C3_PowersOfTwo ==
    /\ DOMAIN board = Idx
    /\ \A r \in Idx : DOMAIN board[r] = Idx
    /\ \A r \in Idx : \A c \in Idx : board[r][c] = 0 \/ IsPowerOfTwo(board[r][c])

C3_Witness ==
    /\ op = "add_random_tile"
    /\ \E r \in Idx : \E c \in Idx : board[r][c] = 8
    /\ TileCount(board) = MaxPlayTiles

\* C4: at depth >= 1 the keys of the mapping evaluate_future_states returns
\* are exactly the directions whose move changes the board.
C4_KeysAreLegalMoves ==
    (op = "evaluate" /\ depth >= 1) =>
        /\ res.kind = "map"
        /\ DOMAIN res.map = Legal(before)

C4_Witness ==
    /\ op = "evaluate" /\ depth >= 1
    /\ DOMAIN res.map # {} /\ DOMAIN res.map # Directions

NoAdjacentEqual(B) ==
    \A r \in Idx : \A c \in Idx :
        /\ r < N => B[r][c] # B[r + 1][c]
        /\ c < N => B[r][c] # B[r][c + 1]

\* C5 as claimed: on a full board with no two adjacent equal cells the
\* search returns an empty mapping at every depth.
C5_AsClaimed ==
    (op = "evaluate" /\ IsFull(before) /\ NoAdjacentEqual(before)) =>
        (res.kind = "map" /\ DOMAIN res.map = {})

\* C5: on a full board with no two adjacent equal cells the search returns
\* an empty mapping at every depth >= 1; at depth 0 it returns the bare
\* heuristic score of the board.
C5_EmptyOnDeadBoard ==
    (op = "evaluate" /\ IsFull(before) /\ NoAdjacentEqual(before)) =>
        /\ ~res.raised
        /\ depth >= 1 => (res.kind = "map" /\ DOMAIN res.map = {})
        /\ depth = 0 => (res.kind = "score" /\ res.score = ToScore(get_points(before)))

C5_Witness ==
    /\ op = "evaluate" /\ depth = MaxDepth
    /\ IsFull(before) /\ NoAdjacentEqual(before)
    /\ res.kind = "map" /\ DOMAIN res.map = {}

\* C6: evaluate_future_states never raises, at any depth >= 0: below the
\* root every legal move leads to a board with a legal move, so max() is
\* never taken over an empty collection.
C6_NeverRaises == op = "evaluate" => ~res.raised

C6_Witness ==
    /\ op = "evaluate" /\ depth >= 2
    /\ ~res.raised /\ DOMAIN res.map # {}
    /\ IsFull(before)

\* C7: the search leaves the caller's board as it was, cell for cell.
C7_BoardUntouched == op = "evaluate" => board = before

C7_Witness ==
    /\ op = "evaluate" /\ depth >= 2
    /\ DOMAIN res.map = Directions
    /\ board = before

\* C8: make_best_move_with_lookahead returns False exactly when no direction
\* changes the board, then leaves the board unchanged, and never raises.
C8_FalseIffNoMove ==
    op = "make_best" =>
        /\ ~res.raised
        /\ ~ret <=> Legal(before) = {}
        /\ ~ret => board = before

C8_Witness ==
    /\ op = "make_best" /\ ~ret
    /\ IsFull(before) /\ board = before

\* C9: when the move-score mapping is not empty, exactly one move is
\* applied, it is the first candidate tried, and its score is the greatest
\* of the mapping.
C9_BestMoveApplied ==
    (op = "make_best" /\ DOMAIN res.map # {}) =>
        /\ ret
        /\ res.tried = 1
        /\ chosen \in DOMAIN res.map
        /\ \A m \in DOMAIN res.map : ScoreLeq(res.map[m], res.map[chosen])
        /\ board = ApplyMove(chosen, before).board
        /\ board # before

C9_Witness ==
    /\ op = "make_best" /\ ret /\ res.tried = 1
    /\ \E m \in DOMAIN res.map : ~ScoreLeq(res.map[chosen], res.map[m])
    /\ board = ApplyMove(chosen, before).board

\* C10 as claimed: add_random_tile follows every turn in which
\* make_best_move_with_lookahead returned True.
C10_AsClaimed == [][pc = "moved" => op' = "add_random_tile"]_vars

\* C10: add_random_tile is called exactly once after every turn in which
\* make_best_move_with_lookahead returned True and left no 2048 tile on the
\* board (the turn that makes the 2048 tile ends the loop with no insertion),
\* never after a turn in which it returned False, and never during the
\* search: no board the search worked on holds more tiles than the board it
\* was given.
C10_TileAfterSuccessfulTurn ==
    [][/\ (pc = "moved" /\ ~check_2048(board)) => (op' = "add_random_tile" /\ pc' = "loop")
       /\ (pc = "moved" /\ check_2048(board)) => (board' = board /\ pc' = "won")
       /\ op' = "add_random_tile" => (pc = "moved" /\ op = "make_best" /\ ret)
       /\ pc = "stuck" => board' = board
       /\ op' = "make_best" => res'.peak <= TileCount(board)]_vars

C10_Witness ==
    /\ op = "add_random_tile" /\ pc = "loop" /\ turns = MaxTurns
    /\ TileCount(board) = TileCount(before) + 1

\* how many cells of B hold the value v
Count(B, v) == Cardinality({p \in Cells : B[p[1]][p[2]] = v})

\* A and B hold the same multiset of cell values
SameTiles(A, B) ==
    \A v \in {A[p[1]][p[2]] : p \in Cells} \cup {B[p[1]][p[2]] : p \in Cells} :
        Count(A, v) = Count(B, v)

\* the cell of B at row r, column c, and 0 when that position is off the board
At(B, r, c) == IF r \in Idx /\ c \in Idx THEN B[r][c] ELSE 0

\* C11: add_random_tile on a board with no zero cell leaves every cell
\* unchanged; on a board with a zero cell it changes exactly one cell, which
\* was 0 and becomes 2 or 4, and leaves every other cell as it was.
C11_OneEmptyCellFilled ==
    op = "add_random_tile" =>
        IF IsFull(before)
        THEN board = before
        ELSE \E p \in Cells :
                /\ before[p[1]][p[2]] = 0
                /\ board[p[1]][p[2]] \in {2, 4}
                /\ \A q \in Cells \ {p} : board[q[1]][q[2]] = before[q[1]][q[2]]

C11_Witness ==
    /\ op = "add_random_tile" /\ TileCount(before) = N
    /\ TileCount(board) = N + 1
    /\ \E p \in Cells : before[p[1]][p[2]] = 0 /\ board[p[1]][p[2]] = 4

\* C12: is_game_over returns True exactly when the board is full and none
\* of left, right, up and down would report a change on it.
C12_GameOverIffFullAndNoMove ==
    op = "is_game_over" =>
        (ret <=> (IsFull(before) /\ \A m \in Directions : ~ApplyMove(m, before).moved))

C12_Witness ==
    /\ op = "is_game_over" /\ ret /\ IsFull(before)
    /\ \A m \in Directions : ~ApplyMove(m, before).moved

\* C13: the two rotations undo each other, in either order, and each keeps
\* the multiset of cell values.
C13_RotationsInverse ==
    /\ op = "rotate_cw" =>
          (rotate_board_counterclockwise(board) = before /\ SameTiles(board, before))
    /\ op = "rotate_ccw" =>
          (rotate_board_clockwise(board) = before /\ SameTiles(board, before))

C13_Witness ==
    /\ op = "rotate_ccw" /\ board # before /\ TileCount(before) = N - 1
    /\ rotate_board_clockwise(board) = before

\* C14 as claimed: for every non-empty cell, each neighbour value that
\* create_points reads is the adjacent cell in that direction when it exists
\* and 0 when it would lie off the board, so no edge cell is compared with
\* the opposite edge.  The vertical directions are named as create_points
\* names them: up is the next row, down the previous one.
C14_AsClaimed ==
    op = "create_points" =>
        \A p \in DOMAIN pts :
            /\ pts[p].left = At(before, p[1], p[2] - 1)
            /\ pts[p].right = At(before, p[1], p[2] + 1)
            /\ pts[p].up = At(before, p[1] + 1, p[2])
            /\ pts[p].down = At(before, p[1] - 1, p[2])

\* C15 as claimed: a cell strictly greater than its left and its right
\* neighbour and equal to both its vertical neighbours gets the contribution
\* 6 * value / 2048.
C15_AsClaimed ==
    op = "create_points" =>
        \A p \in DOMAIN pts :
            LET v == before[p[1]][p[2]]
            IN (/\ At(before, p[1], p[2] - 1) < v
                /\ At(before, p[1], p[2] + 1) < v
                /\ At(before, p[1] - 1, p[2]) = v
                /\ At(before, p[1] + 1, p[2]) = v)
               => pts[p].board_p = normalize(6 * v)

\* C16: left, right, up and down keep the sum of the 16 cells; so does every
\* other call but add_random_tile, which adds the 2 or 4 it inserts.
C16_SumPreserved ==
    /\ op \in MoveOps => BoardSum(board) = BoardSum(before)
    /\ op # "none" =>
          BoardSum(board) - BoardSum(before) \in
              (IF op = "add_random_tile" /\ ~IsFull(before) THEN {2, 4} ELSE {0})

C16_Witness ==
    /\ op \in MoveOps /\ ret /\ TileCount(board) = TileCount(before) - 2
    /\ BoardSum(board) = BoardSum(before)

\* C17: after a move that reports a change the board has a zero cell, so an
\* add_random_tile that follows it places a tile; and a board with a tile
\* and a zero cell has a direction whose move reports a change.
C17_RoomAfterMove ==
    /\ (op \in MoveOps \cup {"make_best"} /\ ret) =>
          /\ ~IsFull(board)
          /\ \A B \in add_random_tile(board) : TileCount(B) = TileCount(board) + 1
    /\ (op \in MoveOps /\ TileCount(before) \in 1..(N * N - 1)) =>
          \E m \in Directions : ApplyMove(m, before).moved

C17_Witness ==
    /\ op \in MoveOps /\ ret /\ IsFull(before) /\ ~IsFull(board)
    /\ board \notin add_random_tile(board)

\* C18: in the play loop no cell ever holds more than 2048: once a move
\* leaves a 2048 tile the loop ends, with no further move and no insertion.
C18_StopsAtWinTile ==
    [][/\ \A p \in Cells : board'[p[1]][p[2]] <= WinTile
       /\ check_2048(board) => (board' = board /\ pc' = "won")]_vars

C18_Witness ==
    /\ pc = "won" /\ op = "check_2048" /\ check_2048(board)
    /\ \A p \in Cells : board[p[1]][p[2]] <= WinTile

=============================================================================
